---- MODULE Spec2Model ----
(***************************************************************************)
(* A model of src-tauri/src/lib.rs of offleaf: the compile_latex pipeline  *)
(* (workspace, two compiler passes, log parsing) and the package           *)
(* detection / installation commands.                                      *)
(*                                                                         *)
(* Text is a sequence of one-character strings.  An Option<T> is a         *)
(* sequence of length 0 (None) or 1 (Some).  A path is a sequence of       *)
(* components; an absolute path starts with the component "/".             *)
(***************************************************************************)
EXTENDS Integers, Sequences, FiniteSets, TLC

VARIABLES
    pc,          \* position of the running command
    request,     \* CompileRequest: content, files, engine
    todo,        \* keys of request.files not yet visited by the loop of line 272
    disk,        \* files on disk written for this request: path -> content
    dirs,        \* directories on disk created for this request
    engine,      \* the local `engine` of compile_latex (Option)
    pass,        \* loop variable of `for pass in 1..=2`
    procs,       \* compiler processes spawned so far, in order
    log_output,  \* the local `log_output` of compile_latex
    ret,         \* value returned by compile_latex
    log_text,    \* parse_latex_log: its argument
    diagnostics, \* parse_latex_log: Some(its result) once it has returned
    directives,  \* the directives the document text was written from
    content,     \* parse_usepackages: its argument, the document text
    packages,    \* parse_usepackages: Some(its result) once it has returned
    spc,         \* position of the running package command
    command,     \* the package command invoked: its name and its content argument
    registry,    \* the files kpsewhich finds: [pkg, ext]
    declared,    \* names still to be looked up by the loop over the declared names
    lookups,     \* calls of is_package_installed made so far, with their results
    missing,     \* the local `missing`
    queue,       \* rest of `packages` in the loop of install_missing_packages
    installs,    \* tlmgr install processes spawned so far, in order
    installed,   \* the local `installed` of install_missing_packages
    failed,      \* the local `failed` of install_missing_packages
    sret,        \* value returned by auto_install_missing / install_essential_packages
    detected,    \* the local `packages` of detect_packages
    installed_list, \* the local `installed_list` of detect_packages
    dret         \* value returned by detect_packages

\* compile_latex
cvars == <<pc, request, todo, disk, dirs, engine, pass, procs, log_output, ret>>
\* parse_latex_log called on its own
lvars == <<log_text, diagnostics>>

\* parse_usepackages called on its own
pvars == <<directives, content, packages>>

\* detect_packages
dvars == <<detected, installed_list, dret>>

\* the package commands
svars == <<spc, command, registry, declared, lookups, missing, queue, installs, installed, failed,
           sret, dvars>>

vars == <<cvars, lvars, pvars, svars>>

(***************************************************************************)
(* Bounds                                                                  *)
(***************************************************************************)
MaxAuxFiles == 2
MaxLogPieces == 5
MaxDirectives == 2
MaxMissingEssential == 2

(***************************************************************************)
(* Generic helpers                                                         *)
(***************************************************************************)
None == <<>>
Some(v) == <<v>>
IsSome(o) == Len(o) = 1
Unwrap(o) == o[1]

Last(s) == s[Len(s)]

IsPrefix(p, s) == Len(p) <= Len(s) /\ SubSeq(s, 1, Len(p)) = p

(***************************************************************************)
(* Paths                                                                   *)
(***************************************************************************)
\* TempDir::new() gives an absolute directory (line 259-260)
temp_path == <<"/", "tmp", "ws">>

IsAbsolute(p) == Len(p) > 0 /\ p[1] = "/"

\* Path::join: an absolute argument replaces the base (line 263, 273, 322)
Join(base, p) == IF IsAbsolute(p) THEN p ELSE base \o p

\* Path::parent (line 274): None for the root or the empty path
Parent(p) == IF Len(p) <= 1 THEN None ELSE Some(SubSeq(p, 1, Len(p) - 1))

\* The file the operating system opens for a path: ".." climbs one level,
\* and never above the root directory.
RECURSIVE ResolveFrom(_, _)
ResolveFrom(acc, p) ==
    IF p = <<>> THEN acc
    ELSE IF p[1] = ".."
         THEN ResolveFrom(IF Len(acc) > 1 THEN SubSeq(acc, 1, Len(acc) - 1) ELSE acc,
                          Tail(p))
         ELSE ResolveFrom(Append(acc, p[1]), Tail(p))

Resolve(p) == ResolveFrom(<<>>, p)

main_tex_path == Join(temp_path, <<"main.tex">>)
pdf_path == Join(temp_path, <<"main.pdf">>)

(***************************************************************************)
(* Text                                                                    *)
(***************************************************************************)
\* char::is_whitespace, for the characters that occur in the model
Whitespace == {" ", "\t", "\r", "\n"}

Digits == {"0", "1", "2", "3", "4", "5", "6", "7", "8", "9"}

DigitVal(c) ==
    CASE c = "0" -> 0 [] c = "1" -> 1 [] c = "2" -> 2 [] c = "3" -> 3
      [] c = "4" -> 4 [] c = "5" -> 5 [] c = "6" -> 6 [] c = "7" -> 7
      [] c = "8" -> 8 [] c = "9" -> 9

RECURSIVE TrimStart(_)
TrimStart(s) ==
    IF s # <<>> /\ s[1] \in Whitespace THEN TrimStart(Tail(s)) ELSE s

RECURSIVE TrimEnd(_)
TrimEnd(s) ==
    IF s # <<>> /\ Last(s) \in Whitespace
    THEN TrimEnd(SubSeq(s, 1, Len(s) - 1)) ELSE s

\* str::trim
Trim(s) == TrimEnd(TrimStart(s))

\* str::trim_start_matches(char): removes every leading occurrence
RECURSIVE TrimStartMatches(_, _)
TrimStartMatches(s, c) ==
    IF s # <<>> /\ s[1] = c THEN TrimStartMatches(Tail(s), c) ELSE s

\* str::starts_with
StartsWith(s, p) == IsPrefix(p, s)

\* str::strip_prefix
StripPrefix(s, p) == IF IsPrefix(p, s) THEN Some(SubSeq(s, Len(p) + 1, Len(s))) ELSE None

\* str::find(char): the number of characters before the first occurrence
Find(s, c) ==
    IF \E i \in 1..Len(s) : s[i] = c
    THEN Some((CHOOSE i \in 1..Len(s) : s[i] = c /\ \A j \in 1..(i - 1) : s[j] # c) - 1)
    ELSE None

\* str::contains(&str)
Contains(s, sub) ==
    \E i \in 0..(Len(s) - Len(sub)) : SubSeq(s, i + 1, i + Len(sub)) = sub

\* str::lines: lines end at "\n" or "\r\n"; the final line needs no terminator
RECURSIVE SplitNewline(_, _)
SplitNewline(cur, s) ==
    IF s = <<>> THEN (IF cur = <<>> THEN <<>> ELSE <<cur>>)
    ELSE IF s[1] = "\n" THEN <<cur>> \o SplitNewline(<<>>, Tail(s))
    ELSE SplitNewline(Append(cur, s[1]), Tail(s))

StripCr(l) == IF l # <<>> /\ Last(l) = "\r" THEN SubSeq(l, 1, Len(l) - 1) ELSE l

Lines(text) == [i \in 1..Len(SplitNewline(<<>>, text)) |-> StripCr(SplitNewline(<<>>, text)[i])]

I32Max == 2147483647
I32Min == (-2147483647) - 1

\* The digit loops of i32::from_str: checked_mul(10) then checked_add / checked_sub
RECURSIVE AccPos(_, _)
AccPos(acc, ds) ==
    IF ds = <<>> THEN Some(acc)
    ELSE IF ds[1] \notin Digits THEN None
    ELSE IF acc > I32Max \div 10 THEN None
    ELSE IF acc * 10 > I32Max - DigitVal(ds[1]) THEN None
    ELSE AccPos(acc * 10 + DigitVal(ds[1]), Tail(ds))

RECURSIVE AccNeg(_, _)
AccNeg(acc, ds) ==
    IF ds = <<>> THEN Some(acc)
    ELSE IF ds[1] \notin Digits THEN None
    ELSE IF acc < -(I32Max \div 10) THEN None
    ELSE IF acc * 10 < I32Min + DigitVal(ds[1]) THEN None
    ELSE AccNeg(acc * 10 - DigitVal(ds[1]), Tail(ds))

\* str::parse::<i32>: an optional sign, then at least one decimal digit
ParseI32(s) ==
    IF s = <<>> THEN None
    ELSE IF s[1] = "+" THEN (IF Len(s) = 1 THEN None ELSE AccPos(0, Tail(s)))
    ELSE IF s[1] = "-" THEN (IF Len(s) = 1 THEN None ELSE AccNeg(0, Tail(s)))
    ELSE AccPos(0, s)

(***************************************************************************)
(* parse_latex_log (lines 207-254)                                         *)
(***************************************************************************)
ChBang == "!"
ChLDot == <<"l", ".">>
ChWarning == <<"W", "a", "r", "n", "i", "n", "g", ":">>
ChLaTeXError == <<"L", "a", "T", "e", "X", " ", "E", "r", "r", "o", "r", ":">>

\* CompilationError / CompilationWarning: file is always None
Diag(line, message) == [line |-> line, message |-> message, file |-> None]

NoRecord == [errors |-> <<>>, warnings |-> <<>>]

\* the body of `else if let Some(stripped) = line.strip_prefix("l.")`
LineNumberBranch(stripped) ==
    IF ~IsSome(Find(stripped, " ")) THEN NoRecord
    ELSE
      LET num_end == Unwrap(Find(stripped, " "))
          parsed == ParseI32(SubSeq(stripped, 1, num_end))
          msg == Trim(SubSeq(stripped, num_end + 1, Len(stripped)))
      IN  IF IsSome(parsed) /\ msg # <<>>
          THEN [errors |-> <<Diag(Unwrap(parsed), msg)>>, warnings |-> <<>>]
          ELSE NoRecord

\* one iteration of `for line in log.lines()`: what it pushes
ClassifyLine(line) ==
    IF StartsWith(line, <<ChBang>>)
    THEN [errors |-> <<Diag(0, Trim(TrimStartMatches(line, ChBang)))>>, warnings |-> <<>>]
    ELSE IF IsSome(StripPrefix(line, ChLDot))
    THEN LineNumberBranch(Unwrap(StripPrefix(line, ChLDot)))
    ELSE IF Contains(line, ChWarning)
    THEN [errors |-> <<>>, warnings |-> <<Diag(0, line)>>]
    ELSE IF Contains(line, ChLaTeXError)
    THEN [errors |-> <<Diag(0, line)>>, warnings |-> <<>>]
    ELSE NoRecord

RECURSIVE ParseLines(_)
ParseLines(ls) ==
    IF ls = <<>> THEN NoRecord
    ELSE LET h == ClassifyLine(ls[1])
             t == ParseLines(Tail(ls))
         IN  [errors |-> h.errors \o t.errors, warnings |-> h.warnings \o t.warnings]

parse_latex_log(log) == ParseLines(Lines(log))

(***************************************************************************)
(* parse_usepackages (lines 102-136)                                       *)
(***************************************************************************)
ChUsepackage == <<"\\", "u", "s", "e", "p", "a", "c", "k", "a", "g", "e">>
ChRequirePackage ==
    <<"\\", "R", "e", "q", "u", "i", "r", "e", "P", "a", "c", "k", "a", "g", "e">>

\* \s* : the first position at or after i that holds no whitespace
RECURSIVE SkipWs(_, _)
SkipWs(text, i) ==
    IF i <= Len(text) /\ text[i] \in Whitespace THEN SkipWs(text, i + 1) ELSE i

\* the first position at or after i that holds c, or 0
RECURSIVE IndexFrom(_, _, _)
IndexFrom(text, c, i) ==
    IF i > Len(text) THEN 0
    ELSE IF text[i] = c THEN i
    ELSE IndexFrom(text, c, i + 1)

\* \{([^}]+)\} at position j, the options already captured
MatchBraces(text, j, options) ==
    IF j > Len(text) \/ text[j] # "{" THEN None
    ELSE LET k == IndexFrom(text, "}", j + 1)
         IN  IF k > j + 1
             THEN Some([options |-> options, pkg_list |-> SubSeq(text, j + 1, k - 1),
                        end |-> k + 1])
             ELSE None

\* keyword \s* (?:\[([^\]]*)\])? \s* \{([^}]+)\} matched at position i, or None
MatchAt(text, keyword, i) ==
    IF i + Len(keyword) - 1 > Len(text) \/ SubSeq(text, i, i + Len(keyword) - 1) # keyword
    THEN None
    ELSE LET j == SkipWs(text, i + Len(keyword))
         IN  IF j <= Len(text) /\ text[j] = "[" /\ IndexFrom(text, "]", j + 1) > 0
             THEN LET k == IndexFrom(text, "]", j + 1)
                  IN  MatchBraces(text, SkipWs(text, k + 1), Some(SubSeq(text, j + 1, k - 1)))
             ELSE MatchBraces(text, j, None)

\* Regex::captures_iter: the leftmost matches, none overlapping another
RECURSIVE CapturesIter(_, _, _)
CapturesIter(text, keyword, i) ==
    IF i > Len(text) THEN <<>>
    ELSE IF text[i] # keyword[1] THEN CapturesIter(text, keyword, i + 1)
    ELSE LET m == MatchAt(text, keyword, i)
         IN  IF IsSome(m)
             THEN <<Unwrap(m)>> \o CapturesIter(text, keyword, Unwrap(m).end)
             ELSE CapturesIter(text, keyword, i + 1)

\* str::split(','): the pieces between the commas, empty ones included
RECURSIVE SplitComma(_, _)
SplitComma(cur, s) ==
    IF s = <<>> THEN <<cur>>
    ELSE IF s[1] = "," THEN <<cur>> \o SplitComma(<<>>, Tail(s))
    ELSE SplitComma(Append(cur, s[1]), Tail(s))

\* mutant: the names are pushed as written, untrimmed
PushNamesUntrimmed(pkgs, options) ==
    IF pkgs = <<>> THEN <<>>
    ELSE <<[name |-> pkgs[1], options |-> options]>>
            \o [i \in 1..(Len(pkgs) - 1) |-> [name |-> pkgs[i + 1], options |-> options]]

\* `for pkg in pkg_list.split(',')` (lines 113-118, 127-132)
RECURSIVE PushNames(_, _)
PushNames(pkgs, options) ==
    IF pkgs = <<>> THEN <<>>
    ELSE (IF Trim(pkgs[1]) # <<>>
          THEN <<[name |-> Trim(pkgs[1]), options |-> options]>>
          ELSE <<>>) \o PushNames(Tail(pkgs), options)

\* `for cap in re.captures_iter(content)` (lines 109-119, 123-133)
RECURSIVE PushCaptures(_)
PushCaptures(caps) ==
    IF caps = <<>> THEN <<>>
    ELSE PushNames(SplitComma(<<>>, caps[1].pkg_list), caps[1].options)
            \o PushCaptures(Tail(caps))

parse_usepackages(text) ==
    PushCaptures(CapturesIter(text, ChUsepackage, 1))
        \o PushCaptures(CapturesIter(text, ChRequirePackage, 1))

(***************************************************************************)
(* compile_latex (lines 256-349)                                           *)
(***************************************************************************)
\* Inputs of a request
Contents == {"doc"}
AuxContents == {"aux"}
AuxNames ==
    { <<"fig.tex">>, <<"sub", "fig.tex">>, <<"..", "evil.tex">>,
      <<"/", "etc", "evil">>, <<"main.tex">>, <<"main.pdf">>, <<"main.pdf", "x">> }
KnownEngines == {"xelatex", "pdflatex", "lualatex"}
EngineInputs == {None} \cup {Some(e) : e \in KnownEngines \cup {"sh"}}

\* What a compiler process may print (bytes; "xFF" is a byte that is not UTF-8)
Stdouts == { <<>>, <<"!", " ", "e">> }
Stderrs == { <<>>, <<"w", "xFF">> }
PdfBytes == "PDF"

\* Directories that exist before the request starts
PreDirs == { <<"/">>, <<"/", "tmp">>, <<"/", "etc">> }

Requests ==
    { [content |-> c, files |-> f, engine |-> e] :
        c \in Contents,
        f \in UNION { [S -> AuxContents] :
                        S \in { T \in SUBSET AuxNames : Cardinality(T) <= MaxAuxFiles } },
        e \in EngineInputs }

NoMsg == [kind |-> "", subject |-> <<>>]
NoReturn ==
    [tag |-> "none", success |-> FALSE, pdf_path |-> None, pdf_data |-> None,
     log |-> <<>>, errors |-> <<>>, warnings |-> <<>>, msg |-> NoMsg]

\* Err(format!(...)): the text before the argument, and the argument
Err(kind, subject) ==
    [NoReturn EXCEPT !.tag = "Err", !.msg = [kind |-> kind, subject |-> subject]]

\* mutant: the success flag taken from the last exit status
OkResultByExitStatus(success, path, data, log, parsed) ==
    [tag |-> "Ok", success |-> Last(procs).success, pdf_path |-> path, pdf_data |-> data,
     log |-> log, errors |-> parsed.errors, warnings |-> parsed.warnings, msg |-> NoMsg]

\* mutant: a compiler that exited with an error fails the request
OkResultErrOnExitStatus(success, path, data, log, parsed) ==
    IF Last(procs).success
    THEN [tag |-> "Ok", success |-> success, pdf_path |-> path, pdf_data |-> data,
          log |-> log, errors |-> parsed.errors, warnings |-> parsed.warnings, msg |-> NoMsg]
    ELSE [NoReturn EXCEPT !.tag = "Err", !.msg = [kind |-> "Compilation failed", subject |-> <<>>]]

\* Ok(CompilationResult { .. }) (lines 331-347)
OkResult(success, path, data, log, parsed) ==
    [tag |-> "Ok", success |-> success, pdf_path |-> path, pdf_data |-> data,
     log |-> log, errors |-> parsed.errors, warnings |-> parsed.warnings, msg |-> NoMsg]

InWorkspace(p) == IsPrefix(temp_path, p)

\* Drop of `temp_dir` on return: the workspace and all below it are removed
DropDisk(d) == [p \in {q \in DOMAIN d : ~InWorkspace(q)} |-> d[p]]
DropDirs(ds) == {p \in ds : ~InWorkspace(p)}

EmptyDisk == [p \in {} |-> ""]

\* Path::exists
Exists(p) == Resolve(p) \in DOMAIN disk \/ Resolve(p) \in dirs

\* String::from_utf8_lossy: invalid bytes become U+FFFD
Utf8Lossy(bytes) == [i \in 1..Len(bytes) |-> IF bytes[i] = "xFF" THEN "U+FFFD" ELSE bytes[i]]

\* format!("{}\n{}", stdout, stderr) (line 312)
FormatLog(stdout, stderr) == stdout \o <<"\n">> \o stderr

\* request.engine.unwrap_or_else(|| "xelatex".to_string()) (line 286)
EngineOf(req) == IF IsSome(req.engine) THEN Unwrap(req.engine) ELSE "xelatex"

\* mutant: only the second pass stores its output
KeepsLogPass2Only(p, success) == p = 2

\* line 311: which passes overwrite log_output
KeepsLog(p, success) == p = 2 \/ ~success

\* mutant: the loop never breaks
BreaksLoopNever(p, success) == FALSE

\* line 316: the break out of the loop
BreaksLoop(p, success) == ~success /\ p = 1

\* return from compile_latex after the workspace exists
Return(r, d, ds) ==
    /\ ret' = r
    /\ pc' = "done"
    /\ disk' = DropDisk(d)
    /\ dirs' = DropDirs(ds)

\* no call of parse_latex_log on its own
LogIdle == log_text = <<>> /\ diagnostics = None

\* what compile_latex leaves alone
others_c == <<lvars, pvars, svars>>

\* no call of parse_usepackages on its own
PkgIdle == directives = <<>> /\ content = <<>> /\ packages = None

\* AutoInstallResult, or nothing returned yet
NoSyncReturn ==
    [tag |-> "none", success |-> FALSE, installed |-> <<>>, failed |-> <<>>,
     message |-> [text |-> "", counts |-> <<>>, names |-> <<>>]]

\* PackageDetectionResult, or nothing returned yet
NoDetectReturn == [tag |-> "none", packages |-> <<>>, missing |-> <<>>, installed |-> <<>>]

\* detect_packages has pushed nothing and returned nothing
DetectIdle == detected = <<>> /\ installed_list = <<>> /\ dret = NoDetectReturn

\* no package command
SyncIdle ==
    /\ DetectIdle
    /\ spc = "idle"
    /\ command = [name |-> "", content |-> <<>>]
    /\ registry = {}
    /\ declared = <<>>
    /\ lookups = <<>>
    /\ missing = <<>>
    /\ queue = <<>>
    /\ installs = <<>>
    /\ installed = <<>>
    /\ failed = <<>>
    /\ sret = NoSyncReturn

Init ==
    /\ LogIdle
    /\ PkgIdle
    /\ SyncIdle
    /\ pc = "start"
    /\ request \in Requests
    /\ todo = {}
    /\ disk = EmptyDisk
    /\ dirs = PreDirs
    /\ engine = None
    /\ pass = 0
    /\ procs = <<>>
    /\ log_output = <<>>
    /\ ret = NoReturn

\* TempDir::new() (line 259)
CreateTempDir ==
    /\ pc = "start"
    /\ \E ok \in BOOLEAN :
         IF ok
         THEN /\ dirs' = dirs \cup {temp_path}
              /\ pc' = "write_main"
              /\ UNCHANGED ret
         ELSE /\ ret' = Err("Failed to create temp dir", <<>>)
              /\ pc' = "done"
              /\ UNCHANGED dirs
    /\ UNCHANGED <<request, todo, disk, engine, pass, procs, log_output>>
    /\ UNCHANGED others_c

\* lines 262-269
WriteMain ==
    /\ pc = "write_main"
    /\ \E io \in {"ok", "create_failed", "write_failed"} :
         CASE io = "ok" ->
                /\ disk' = (main_tex_path :> request.content) @@ disk
                /\ todo' = DOMAIN request.files
                /\ pc' = "write_aux"
                /\ UNCHANGED <<dirs, ret>>
           [] io = "create_failed" ->
                /\ Return(Err("Failed to create main.tex", <<>>), disk, dirs)
                /\ UNCHANGED todo
           [] io = "write_failed" ->
                /\ Return(Err("Failed to write main.tex", <<>>),
                          (main_tex_path :> "") @@ disk, dirs)
                /\ UNCHANGED todo
    /\ UNCHANGED <<request, engine, pass, procs, log_output>>
    /\ UNCHANGED others_c

\* fs::create_dir_all(parent).await.ok() (line 275): every prefix of the path
\* becomes a directory, unless one of them is a regular file or the call fails
CreateDirAll(p, d, ds, ok) ==
    LET made == { Resolve(SubSeq(p, 1, n)) : n \in 1..Len(p) }
    IN  IF ok /\ made \cap DOMAIN d = {} THEN ds \cup made ELSE ds

\* one iteration of `for (filename, content) in &request.files` (lines 272-283)
WriteAux ==
    /\ pc = "write_aux"
    /\ \E filename \in todo, mkdirOk \in BOOLEAN, io \in {"ok", "create_failed", "write_failed"} :
         LET file_path == Join(temp_path, filename)
             target == Resolve(file_path)
             ds == IF IsSome(Parent(file_path))
                   THEN CreateDirAll(Unwrap(Parent(file_path)), disk, dirs, mkdirOk)
                   ELSE dirs
             creatable == /\ target \notin ds
                          /\ Len(target) > 1
                          /\ SubSeq(target, 1, Len(target) - 1) \in ds
         IN  IF io = "create_failed" \/ ~creatable
             THEN /\ Return(Err("Failed to create", filename), disk, ds)
                  /\ UNCHANGED todo
             ELSE IF io = "write_failed"
             THEN /\ Return(Err("Failed to write", filename), (target :> "") @@ disk, ds)
                  /\ UNCHANGED todo
             ELSE /\ disk' = (target :> request.files[filename]) @@ disk
                  /\ dirs' = ds
                  /\ todo' = todo \ {filename}
                  /\ UNCHANGED <<pc, ret>>
    /\ UNCHANGED <<request, engine, pass, procs, log_output>>
    /\ UNCHANGED others_c

\* lines 285-291: the loop over the files is over; choose the engine, enter the loop
DetermineEngine ==
    /\ pc = "write_aux"
    /\ todo = {}
    /\ engine' = Some(EngineOf(request))
    /\ pass' = 1
    /\ pc' = "spawn"
    /\ UNCHANGED <<request, todo, disk, dirs, procs, log_output, ret>>
    /\ UNCHANGED others_c

Proc(p, program, state) ==
    [pass |-> p, program |-> program, state |-> state,
     main_tex |-> IF main_tex_path \in DOMAIN disk THEN Some(disk[main_tex_path]) ELSE None,
     success |-> FALSE, stdout |-> <<>>, stderr |-> <<>>]

\* Command::new(&engine)...output(): the spawn (lines 292-306)
SpawnPass ==
    /\ pc = "spawn"
    /\ \E ok \in BOOLEAN :
         IF ok
         THEN /\ procs' = Append(procs, Proc(pass, Unwrap(engine), "running"))
              /\ pc' = "wait"
              /\ UNCHANGED <<disk, dirs, ret>>
         ELSE /\ procs' = Append(procs, Proc(pass, Unwrap(engine), "spawn_failed"))
              /\ Return(Err("Failed to run", <<Unwrap(engine)>>), disk, dirs)
    /\ UNCHANGED <<request, todo, engine, pass, log_output>>
    /\ UNCHANGED others_c

\* what the compiler process does to main.pdf in the output directory
PdfAfter(effect, d, ds) ==
    CASE effect = "keep" -> d
      [] effect = "write" -> IF pdf_path \in ds THEN d ELSE (pdf_path :> PdfBytes) @@ d
      [] effect = "remove" -> [p \in DOMAIN d \ {pdf_path} |-> d[p]]

\* .output().await returns: the process has exited (lines 304-318)
AwaitOutput ==
    /\ pc = "wait"
    /\ \E success \in BOOLEAN, out \in Stdouts, err \in Stderrs,
          effect \in {"keep", "write", "remove"} :
         LET stdout == Utf8Lossy(out)
             stderr == Utf8Lossy(err)
         IN  /\ procs' = [procs EXCEPT ![Len(procs)] =
                            [@ EXCEPT !.state = "exited", !.success = success,
                                      !.stdout = out, !.stderr = err]]
             /\ disk' = PdfAfter(effect, disk, dirs)
             /\ log_output' = IF KeepsLog(pass, success)
                              THEN FormatLog(stdout, stderr) ELSE log_output
             /\ IF BreaksLoop(pass, success) \/ pass = 2
                THEN pc' = "check_pdf" /\ UNCHANGED pass
                ELSE pc' = "spawn" /\ pass' = pass + 1
    /\ UNCHANGED <<request, todo, dirs, engine, ret>>
    /\ UNCHANGED others_c

\* lines 321-348
CheckPdf ==
    /\ pc = "check_pdf"
    /\ LET parsed == parse_latex_log(log_output)
       IN  IF Exists(pdf_path)
           THEN \E readOk \in BOOLEAN :
                  IF readOk /\ pdf_path \in DOMAIN disk
                  THEN Return(OkResult(TRUE, Some(pdf_path), Some(disk[pdf_path]),
                                       log_output, parsed), disk, dirs)
                  ELSE Return(Err("Failed to read PDF", <<>>), disk, dirs)
           ELSE Return(OkResult(FALSE, None, None, log_output, parsed), disk, dirs)
    /\ UNCHANGED <<request, todo, engine, pass, procs, log_output>>
    /\ UNCHANGED others_c

Next ==
    \/ CreateTempDir
    \/ WriteMain
    \/ WriteAux
    \/ DetermineEngine
    \/ SpawnPass
    \/ AwaitOutput
    \/ CheckPdf

Spec == Init /\ [][Next]_vars

(***************************************************************************)
(* Claims about compile_latex                                              *)
(***************************************************************************)
MaterializeErrors ==
    {"Failed to create temp dir", "Failed to create main.tex", "Failed to write main.tex",
     "Failed to create", "Failed to write"}

Materialized == pc \notin {"start", "write_main", "write_aux"} /\ ret.msg.kind \notin MaterializeErrors

\* C1: once the workspace is materialized the compiler is spawned at most
\* twice, in the order pass 1, pass 2; a finished request has attempted pass 1;
\* pass 2 is started only after pass 1 was seen to exit with success, and a
\* finished request whose pass 1 exited with success has started pass 2.
C1_TwoPassOrder ==
    /\ Len(procs) <= 2
    /\ \A i \in 1..Len(procs) : procs[i].pass = i
    /\ Len(procs) >= 1 => Materialized
    /\ (pc = "done" /\ Materialized) => Len(procs) >= 1
    /\ Len(procs) = 2 => (procs[1].state = "exited" /\ procs[1].success)
    /\ (pc \in {"check_pdf", "done"} /\ Len(procs) >= 1
          /\ procs[1].state = "exited" /\ procs[1].success) => Len(procs) = 2

C1_Witness ==
    /\ pc = "done"
    /\ Len(procs) = 2
    /\ procs[2].state = "exited"

\* C2: when compile_latex returns a CompilationResult, pdf_data is present
\* exactly when success is true, and success is true exactly when main.pdf
\* existed in the workspace after the compiler run, whatever the exit status.
C2_SuccessIffArtifact ==
    [][(pc = "check_pdf" /\ ret'.tag = "Ok") =>
         /\ IsSome(ret'.pdf_data) <=> ret'.success
         /\ IsSome(ret'.pdf_path) <=> ret'.success
         /\ ret'.success <=> Exists(pdf_path)]_vars

C2_Witness ==
    /\ ret.tag = "Ok"
    /\ ret.success
    /\ IsSome(ret.pdf_data)
    /\ ~Last(procs).success

\* the text the claim calls the combined stdout+stderr of a process
CombinedOutput(p) == Utf8Lossy(p.stdout) \o <<"\n">> \o Utf8Lossy(p.stderr)

\* C3: the log of a CompilationResult, and the text its diagnostics were parsed
\* from, is the combined output of pass 2 when pass 2 ran and of pass 1 otherwise.
C3_LogOfLastPass ==
    ret.tag = "Ok" =>
      LET p == IF Len(procs) = 2 THEN procs[2] ELSE procs[1]
      IN  /\ ret.log = CombinedOutput(p)
          /\ ret.errors = parse_latex_log(CombinedOutput(p)).errors
          /\ ret.warnings = parse_latex_log(CombinedOutput(p)).warnings

C3_Witness ==
    /\ ret.tag = "Ok"
    /\ Len(procs) = 2
    /\ CombinedOutput(procs[1]) # CombinedOutput(procs[2])
    /\ ret.errors # <<>>

AllSpawned(ps) == \A i \in 1..Len(ps) : ps[i].state = "exited"

SpawnFailureReported(ps, r) ==
    (\E i \in 1..Len(ps) : ps[i].state = "spawn_failed") =>
        /\ r.tag = "Err"
        /\ r.msg.kind = "Failed to run"
        /\ r.msg.subject = <<Last(ps).program>>

CarriesLogAndDiagnostics(r) ==
    /\ r.tag = "Ok"
    /\ r.errors = parse_latex_log(r.log).errors
    /\ r.warnings = parse_latex_log(r.log).warnings

\* C4 as stated: a failed spawn gives an Err naming the engine; when every
\* attempted pass was spawned the request returns an Ok CompilationResult.
C4_Original ==
    (pc = "done" /\ Len(procs) >= 1) =>
        /\ SpawnFailureReported(procs, ret)
        /\ AllSpawned(procs) => CarriesLogAndDiagnostics(ret)

\* C4 amended: a failed spawn gives an Err naming the engine; when every
\* attempted pass was spawned the request returns an Ok CompilationResult with
\* the log and its diagnostics, whatever the exit statuses, except that a
\* main.pdf that exists and cannot be read gives the error "Failed to read PDF".
C4_SpawnFailureVsDiagnostics ==
    [][(pc # "done" /\ pc' = "done" /\ Len(procs') >= 1) =>
         /\ SpawnFailureReported(procs', ret')
         /\ AllSpawned(procs') =>
              \/ CarriesLogAndDiagnostics(ret')
              \/ /\ ret'.tag = "Err"
                 /\ ret'.msg.kind = "Failed to read PDF"
                 /\ Exists(pdf_path)]_vars

C4_Witness ==
    /\ pc = "done"
    /\ ret.tag = "Ok"
    /\ Len(procs) = 1
    /\ ~procs[1].success
    /\ ret.errors # <<>>

\* C5: no auxiliary file or directory is ever created outside the workspace root.
C5_NothingOutsideWorkspace ==
    /\ \A p \in DOMAIN disk : InWorkspace(p)
    /\ \A p \in dirs \ PreDirs : InWorkspace(p)

\* C6: every program spawned as the compiler is xelatex, pdflatex or lualatex,
\* and it is xelatex when the request names no engine.
C6_OnlyKnownEngines ==
    \A i \in 1..Len(procs) :
        /\ procs[i].program \in KnownEngines
        /\ request.engine = None => procs[i].program = "xelatex"

(***************************************************************************)
(* parse_latex_log on any log text                                         *)
(***************************************************************************)
\* The log texts tried: up to MaxLogPieces of these pieces, concatenated
LogPieces ==
    { <<"!">>, ChLDot, <<"4">>, <<"-">>, <<" ">>, <<"x">>, <<"\n">>,
      <<"2", "1", "4", "7", "4", "8", "3", "6", "4", "8">>, ChWarning, ChLaTeXError }

RECURSIVE Flatten(_)
Flatten(ss) == IF ss = <<>> THEN <<>> ELSE ss[1] \o Flatten(Tail(ss))

LogTexts == { Flatten(ps) : ps \in UNION { [1..n -> LogPieces] : n \in 0..MaxLogPieces } }

\* no compile_latex request
CompileIdle ==
    /\ pc = "idle"
    /\ request = [content |-> "", files |-> EmptyDisk, engine |-> None]
    /\ todo = {}
    /\ disk = EmptyDisk
    /\ dirs = PreDirs
    /\ engine = None
    /\ pass = 0
    /\ procs = <<>>
    /\ log_output = <<>>
    /\ ret = NoReturn

InitLog ==
    /\ CompileIdle
    /\ PkgIdle
    /\ SyncIdle
    /\ log_text \in LogTexts
    /\ diagnostics = None

\* a call of parse_latex_log(log_text)
ParseLog ==
    /\ diagnostics = None
    /\ diagnostics' = Some(parse_latex_log(log_text))
    /\ UNCHANGED <<log_text, cvars, pvars, svars>>

NextLog == ParseLog

SpecLog == InitLog /\ [][NextLog]_vars

\* The classification as the specification words it -------------------------
\* rule 2: "l." immediately followed by digits, then a space
MatchesLineNumber(line) ==
    /\ IsPrefix(ChLDot, line)
    /\ IsSome(Find(line, " "))
    /\ Unwrap(Find(line, " ")) > 2
    /\ \A i \in 3..Unwrap(Find(line, " ")) : line[i] \in Digits
    /\ IsSome(AccPos(0, SubSeq(line, 3, Unwrap(Find(line, " ")))))

LineNumberOf(line) == Unwrap(AccPos(0, SubSeq(line, 3, Unwrap(Find(line, " ")))))

RuleClassify(line) ==
    IF line # <<>> /\ line[1] = ChBang
    THEN [errors |-> <<Diag(0, Trim(Tail(line)))>>, warnings |-> <<>>]
    ELSE IF MatchesLineNumber(line)
    THEN (LET msg == Trim(SubSeq(line, Unwrap(Find(line, " ")) + 1, Len(line)))
          IN  IF msg = <<>> THEN NoRecord
              ELSE [errors |-> <<Diag(LineNumberOf(line), msg)>>, warnings |-> <<>>])
    ELSE IF Contains(line, ChWarning)
    THEN [errors |-> <<>>, warnings |-> <<Diag(0, line)>>]
    ELSE IF Contains(line, ChLaTeXError)
    THEN [errors |-> <<Diag(0, line)>>, warnings |-> <<>>]
    ELSE NoRecord

RECURSIVE RuleParse(_)
RuleParse(ls) ==
    IF ls = <<>> THEN NoRecord
    ELSE [errors |-> RuleClassify(ls[1]).errors \o RuleParse(Tail(ls)).errors,
          warnings |-> RuleClassify(ls[1]).warnings \o RuleParse(Tail(ls)).warnings]

\* C7: parse_latex_log gives, for every log, the records of the five rules
\* applied to each line in priority order, a line that fails one rule being
\* tested against the next, in the order of the lines.
C7_FirstMatchingRule ==
    IsSome(diagnostics) => Unwrap(diagnostics) = RuleParse(Lines(log_text))

\* C8: every record's line number is 0 or a positive number written as
\* "l.<decimal digits> " at the start of a line of the log; none is negative.
C8_LineNumbers ==
    IsSome(diagnostics) =>
      \A r \in {Unwrap(diagnostics).errors[i] : i \in 1..Len(Unwrap(diagnostics).errors)}
           \cup {Unwrap(diagnostics).warnings[i] : i \in 1..Len(Unwrap(diagnostics).warnings)} :
         \/ r.line = 0
         \/ /\ r.line > 0
            /\ \E i \in 1..Len(Lines(log_text)) :
                 MatchesLineNumber(Lines(log_text)[i]) /\ LineNumberOf(Lines(log_text)[i]) = r.line

(***************************************************************************)
(* parse_usepackages on documents written from directives                  *)
(***************************************************************************)
RawA == <<"a">>
RawB == <<"b">>
RawSpacedA == <<" ", "a", " ">>
RawEmpty == <<>>
RawBlank == <<" ">>

\* the names between the braces of one directive, as written
NameLists ==
    { <<RawA>>, <<RawA, RawB>>, <<RawA, RawA>>, <<RawSpacedA, RawEmpty>>,
      <<RawEmpty>>, <<RawEmpty, RawB>>, <<RawB, RawBlank>> }

\* the bracket part: absent, or present; with or without space around it
OptionLayouts ==
    { [options |-> None, gap |-> <<>>],
      [options |-> None, gap |-> <<" ">>],
      [options |-> Some(<<"o", ",", "p">>), gap |-> <<>>],
      [options |-> Some(<<>>), gap |-> <<" ">>] }

DirectiveShapes ==
    { [kind |-> k, options |-> o.options, gap |-> o.gap, names |-> n] :
        k \in {"usepackage", "RequirePackage"}, o \in OptionLayouts, n \in NameLists }

Documents == UNION { [1..n -> DirectiveShapes] : n \in 0..MaxDirectives }

RECURSIVE JoinComma(_)
JoinComma(names) ==
    IF Len(names) = 0 THEN <<>>
    ELSE IF Len(names) = 1 THEN names[1]
    ELSE names[1] \o <<",">> \o JoinComma(Tail(names))

\* the text of one directive
RenderDirective(d) ==
    (IF d.kind = "usepackage" THEN ChUsepackage ELSE ChRequirePackage)
      \o d.gap
      \o (IF IsSome(d.options) THEN <<"[">> \o Unwrap(d.options) \o <<"]">> ELSE <<>>)
      \o d.gap
      \o <<"{">> \o JoinComma(d.names) \o <<"}">>

\* the document: one directive per line
RECURSIVE RenderDocument(_)
RenderDocument(ds) ==
    IF ds = <<>> THEN <<>>
    ELSE RenderDirective(ds[1]) \o <<"\n">> \o RenderDocument(Tail(ds))

InitPkg ==
    /\ CompileIdle
    /\ LogIdle
    /\ SyncIdle
    /\ directives \in Documents
    /\ content = RenderDocument(directives)
    /\ packages = None

\* a call of parse_usepackages(content)
ParseUsepackages ==
    /\ packages = None
    /\ packages' = Some(parse_usepackages(content))
    /\ UNCHANGED <<directives, content, cvars, lvars, svars>>

NextPkg == ParseUsepackages

SpecPkg == InitPkg /\ [][NextPkg]_vars

\* The records the claim asks for ------------------------------------------
RECURSIVE RecordsOfNames(_, _)
RecordsOfNames(names, options) ==
    IF names = <<>> THEN <<>>
    ELSE (IF \A i \in 1..Len(names[1]) : names[1][i] \in Whitespace
          THEN <<>>
          ELSE <<[name |-> Trim(names[1]), options |-> options]>>)
            \o RecordsOfNames(Tail(names), options)

RECURSIVE RecordsOfKind(_, _)
RecordsOfKind(ds, kind) ==
    IF ds = <<>> THEN <<>>
    ELSE (IF ds[1].kind = kind THEN RecordsOfNames(ds[1].names, ds[1].options) ELSE <<>>)
            \o RecordsOfKind(Tail(ds), kind)

\* C9: parse_usepackages returns one record per non-empty name of every
\* directive, trimmed, with the directive's options (None without brackets),
\* duplicates kept, in document order within a kind, \usepackage records first.
C9_OneRecordPerName ==
    IsSome(packages) =>
        /\ Unwrap(packages) = RecordsOfKind(directives, "usepackage")
                                \o RecordsOfKind(directives, "RequirePackage")
        /\ \A i \in 1..Len(Unwrap(packages)) :
              /\ Unwrap(packages)[i].name # <<>>
              /\ Unwrap(packages)[i].name = Trim(Unwrap(packages)[i].name)

C9_Witness ==
    /\ IsSome(packages)
    /\ Len(directives) = 2
    /\ directives[1].kind = "RequirePackage"
    /\ directives[1].names = <<RawSpacedA, RawEmpty>>
    /\ directives[2].kind = "usepackage"
    /\ directives[2].names = <<RawA, RawA>>
    /\ directives[2].options = Some(<<"o", ",", "p">>)
    /\ Len(Unwrap(packages)) = 3

(***************************************************************************)
(* auto_install_missing, install_essential_packages (lines 138-205,        *)
(* 776-821)                                                                *)
(***************************************************************************)
\* lines 66-100; a name is a text, here of one piece
ESSENTIAL_PACKAGES ==
    << <<"kotex-utf">>, <<"cjk">>, <<"xecjk">>,
       <<"amsmath">>, <<"amssymb">>, <<"amsfonts">>, <<"mathtools">>,
       <<"graphicx">>, <<"xcolor">>, <<"pgf">>,
       <<"booktabs">>, <<"array">>, <<"tabularx">>, <<"longtable">>,
       <<"fontspec">>,
       <<"geometry">>, <<"fancyhdr">>, <<"titlesec">>,
       <<"hyperref">>, <<"biblatex">>,
       <<"listings">>,
       <<"enumitem">>, <<"caption">>, <<"float">> >>

Range(f) == { f[i] : i \in DOMAIN f }

\* is_package_installed (lines 139-162): kpsewhich <pkg>.sty, then <pkg>.cls;
\* a kpsewhich that cannot be run finds nothing (unwrap_or(false))
is_package_installed(pkg) ==
    IF [pkg |-> pkg, ext |-> "sty"] \in registry THEN TRUE
    ELSE [pkg |-> pkg, ext |-> "cls"] \in registry

\* the documents given to auto_install_missing
SyncShapes ==
    { [kind |-> k, options |-> None, gap |-> <<>>, names |-> n] :
        k \in {"usepackage", "RequirePackage"},
        n \in { <<RawA>>, <<RawB>>, <<RawA, RawB>>, <<RawA, RawA>> } }

SyncDocuments == UNION { [1..n -> SyncShapes] : n \in 0..MaxDirectives }

SyncRegistries ==
    SUBSET { [pkg |-> RawA, ext |-> "sty"], [pkg |-> RawA, ext |-> "cls"],
             [pkg |-> RawB, ext |-> "sty"] }

\* the subsets of S of at most k elements
RECURSIVE SubsetsUpTo(_, _)
SubsetsUpTo(S, k) ==
    IF k = 0 THEN {{}}
    ELSE SubsetsUpTo(S, k - 1) \cup { T \cup {x} : T \in SubsetsUpTo(S, k - 1), x \in S }

\* the registries tried for the essential list: all but a few packages found
EssentialRegistries ==
    { { [pkg |-> p, ext |-> "sty"] : p \in Range(ESSENTIAL_PACKAGES) \ M } :
        M \in SubsetsUpTo(Range(ESSENTIAL_PACKAGES), MaxMissingEssential) }

InitSync ==
    /\ CompileIdle
    /\ LogIdle
    /\ PkgIdle
    /\ spc = "start"
    /\ \/ /\ \E ds \in SyncDocuments :
               command = [name |-> "auto_install_missing", content |-> RenderDocument(ds)]
          /\ registry \in SyncRegistries
       \/ /\ command = [name |-> "install_essential_packages", content |-> <<>>]
          /\ registry \in EssentialRegistries
       \/ /\ \E ds \in SyncDocuments :
               command = [name |-> "detect_packages", content |-> RenderDocument(ds)]
          /\ registry \in SyncRegistries
    /\ DetectIdle
    /\ declared = <<>>
    /\ lookups = <<>>
    /\ missing = <<>>
    /\ queue = <<>>
    /\ installs = <<>>
    /\ installed = <<>>
    /\ failed = <<>>
    /\ sret = NoSyncReturn

\* the names of the declared packages: `for (name, _) in parsed`
Names(recs) == [i \in 1..Len(recs) |-> recs[i].name]

\* auto_install_missing: line 779
StartAutoInstall ==
    /\ spc = "start"
    /\ command.name = "auto_install_missing"
    /\ declared' = Names(parse_usepackages(command.content))
    /\ spc' = "resolve"
    /\ UNCHANGED <<command, registry, lookups, missing, queue, installs, installed, failed, sret>>
    /\ UNCHANGED <<cvars, lvars, pvars, dvars>>

\* install_essential_packages: line 805, the loop over the built-in list
StartEssential ==
    /\ spc = "start"
    /\ command.name = "install_essential_packages"
    /\ declared' = ESSENTIAL_PACKAGES
    /\ spc' = "resolve"
    /\ UNCHANGED <<command, registry, lookups, missing, queue, installs, installed, failed, sret>>
    /\ UNCHANGED <<cvars, lvars, pvars, dvars>>

\* mutant: every looked-up name is taken as missing
PushMissingAlways(m, pkg, found) == Append(m, pkg)

\* `if !is_package_installed(..).await { missing.push(..) }` (lines 783-785, 806-808)
PushMissing(m, pkg, found) == IF ~found THEN Append(m, pkg) ELSE m

\* one iteration of the lookup loop (lines 782-786, 805-809)
ResolveNext ==
    /\ spc = "resolve"
    /\ declared # <<>>
    /\ lookups' = Append(lookups, [pkg |-> Head(declared),
                                   found |-> is_package_installed(Head(declared))])
    /\ missing' = PushMissing(missing, Head(declared), is_package_installed(Head(declared)))
    /\ declared' = Tail(declared)
    /\ UNCHANGED <<spc, command, registry, queue, installs, installed, failed, sret>>
    /\ UNCHANGED <<cvars, lvars, pvars, dvars>>

AllInstalledText(name) ==
    IF name = "auto_install_missing" THEN "All packages are already installed"
    ELSE "All essential packages are already installed"

\* lines 788-797, 811-820: return early, or enter install_missing_packages
FinishResolve ==
    /\ spc = "resolve"
    /\ declared = <<>>
    /\ IF missing = <<>>
       THEN /\ sret' = [tag |-> "Ok", success |-> TRUE, installed |-> <<>>, failed |-> <<>>,
                        message |-> [text |-> AllInstalledText(command.name),
                                     counts |-> <<>>, names |-> <<>>]]
            /\ spc' = "done"
            /\ UNCHANGED queue
       ELSE /\ queue' = missing
            /\ spc' = "install"
            /\ UNCHANGED sret
    /\ UNCHANGED <<command, registry, declared, lookups, missing, installs, installed, failed>>
    /\ UNCHANGED <<cvars, lvars, pvars, dvars>>

\* Command::new("tlmgr").args(["install", pkg])...output(): the spawn (lines 170-175)
SpawnInstall ==
    /\ spc = "install"
    /\ queue # <<>>
    /\ \E ok \in BOOLEAN :
         IF ok
         THEN /\ installs' = Append(installs, [pkg |-> Head(queue), state |-> "running"])
              /\ spc' = "install_wait"
              /\ UNCHANGED <<queue, failed>>
         ELSE /\ installs' = Append(installs, [pkg |-> Head(queue), state |-> "spawn_failed"])
              /\ failed' = Append(failed, Head(queue))
              /\ queue' = Tail(queue)
              /\ UNCHANGED spc
    /\ UNCHANGED <<command, registry, declared, lookups, missing, installed, sret>>
    /\ UNCHANGED <<cvars, lvars, pvars, dvars>>

\* the install process has exited (lines 177-184); tlmgr may have added the style file
AwaitInstall ==
    /\ spc = "install_wait"
    /\ \E success \in BOOLEAN, added \in BOOLEAN :
         /\ installs' = [installs EXCEPT ![Len(installs)].state =
                            IF success THEN "exited_ok" ELSE "exited_error"]
         /\ registry' = IF success /\ added
                        THEN registry \cup {[pkg |-> Head(queue), ext |-> "sty"]}
                        ELSE registry
         /\ IF success
            THEN installed' = Append(installed, Head(queue)) /\ UNCHANGED failed
            ELSE failed' = Append(failed, Head(queue)) /\ UNCHANGED installed
    /\ queue' = Tail(queue)
    /\ spc' = "install"
    /\ UNCHANGED <<command, declared, lookups, missing, sret>>
    /\ UNCHANGED <<cvars, lvars, pvars, dvars>>

\* lines 187-204
FinishInstall ==
    /\ spc = "install"
    /\ queue = <<>>
    /\ sret' = [tag |-> "Ok", success |-> failed = <<>>,
                installed |-> installed, failed |-> failed,
                message |-> IF failed = <<>>
                            THEN [text |-> "Successfully installed {} packages",
                                  counts |-> <<Len(installed)>>, names |-> <<>>]
                            ELSE [text |-> "Installed {} packages, {} failed: {}",
                                  counts |-> <<Len(installed), Len(failed)>>,
                                  names |-> failed]]
    /\ spc' = "done"
    /\ UNCHANGED <<command, registry, declared, lookups, missing, queue, installs, installed, failed>>
    /\ UNCHANGED <<cvars, lvars, pvars, dvars>>

\* DetectedPackage (lines 43-48)
DetectedPackage(name, is_installed, options) ==
    [name |-> name, installed |-> is_installed, options |-> options]

\* detect_packages: line 748
StartDetect ==
    /\ spc = "start"
    /\ command.name = "detect_packages"
    /\ declared' = parse_usepackages(command.content)
    /\ spc' = "detect"
    /\ UNCHANGED <<command, registry, lookups, missing, queue, installs, installed, failed, sret>>
    /\ UNCHANGED <<cvars, lvars, pvars, dvars>>

\* one iteration of `for (name, options) in parsed` (lines 753-767)
ResolveDetect ==
    /\ spc = "detect"
    /\ declared # <<>>
    /\ LET name == Head(declared).name
           is_installed == is_package_installed(name)
       IN  /\ lookups' = Append(lookups, [pkg |-> name, found |-> is_installed])
           /\ detected' = Append(detected,
                                 DetectedPackage(name, is_installed, Head(declared).options))
           /\ IF is_installed
              THEN installed_list' = Append(installed_list, name) /\ UNCHANGED missing
              ELSE missing' = Append(missing, name) /\ UNCHANGED installed_list
    /\ declared' = Tail(declared)
    /\ UNCHANGED <<spc, command, registry, queue, installs, installed, failed, sret, dret>>
    /\ UNCHANGED <<cvars, lvars, pvars>>

\* lines 769-773
FinishDetect ==
    /\ spc = "detect"
    /\ declared = <<>>
    /\ dret' = [tag |-> "Ok", packages |-> detected, missing |-> missing,
                installed |-> installed_list]
    /\ spc' = "done"
    /\ UNCHANGED <<command, registry, declared, lookups, missing, queue, installs, installed,
                   failed, sret, detected, installed_list>>
    /\ UNCHANGED <<cvars, lvars, pvars>>

NextSync ==
    \/ StartDetect
    \/ ResolveDetect
    \/ FinishDetect
    \/ StartAutoInstall
    \/ StartEssential
    \/ ResolveNext
    \/ FinishResolve
    \/ SpawnInstall
    \/ AwaitInstall
    \/ FinishInstall

SpecSync == InitSync /\ [][NextSync]_vars

\* the command is one of the two that install
IsSyncCommand == command.name \in {"auto_install_missing", "install_essential_packages"}

\* C10: within one request tlmgr install is invoked exactly once per missing
\* package, never twice for the same name, and each install process has exited
\* before the next is started.
C10_OneInstallPerPackage ==
    /\ \A i, j \in 1..Len(installs) : i # j => installs[i].pkg # installs[j].pkg
    /\ \A i \in 1..(Len(installs) - 1) : installs[i].state # "running"
    /\ (IsSyncCommand /\ spc = "done") =>
          { installs[i].pkg : i \in 1..Len(installs) } = Range(missing)

\* C11: a request of auto_install_missing or install_essential_packages whose
\* lookups all found the package installed never invokes tlmgr install and
\* returns success = true, empty installed and failed lists and the message
\* that all packages are already installed; tlmgr install is only ever invoked
\* for a package that a lookup of the same request did not find.
C11_AllSatisfied ==
    IsSyncCommand =>
        /\ \A i \in 1..Len(installs) :
              \E j \in 1..Len(lookups) :
                  lookups[j].pkg = installs[i].pkg /\ ~lookups[j].found
        /\ (spc = "done" /\ \A j \in 1..Len(lookups) : lookups[j].found) =>
              /\ installs = <<>>
              /\ sret.tag = "Ok"
              /\ sret.success
              /\ sret.installed = <<>>
              /\ sret.failed = <<>>
              /\ sret.message.text \in {"All packages are already installed",
                                        "All essential packages are already installed"}

C11_Witness ==
    /\ spc = "done"
    /\ command.name = "auto_install_missing"
    /\ Len(lookups) >= 2
    /\ \A j \in 1..Len(lookups) : lookups[j].found
    /\ sret.success

NoRepeat(seq) == \A i, j \in 1..Len(seq) : i # j => seq[i] # seq[j]

\* C12: the result of detect_packages names every declared package once: no
\* name occurs twice in its packages list, nor twice in its missing and
\* installed lists taken together.
C12_OneStatusPerName ==
    dret.tag = "Ok" =>
        /\ NoRepeat(Names(dret.packages))
        /\ NoRepeat(dret.missing \o dret.installed)

\* C13: the main.tex every compiler pass is started on holds exactly the
\* request's primary document text, whatever paths the auxiliary file map
\* names: writing the auxiliary files never replaces the primary document.
C13_MainTexIsPrimary ==
    \A i \in 1..Len(procs) : procs[i].main_tex = Some(request.content)

\* the elements of seq that are in S, in the order of seq
Filter(seq, S) == SelectSeq(seq, LAMBDA x : x \in S)

\* C14: when install_missing_packages has run over the missing list, the
\* installed and failed lists it returns are disjoint, every name of the
\* missing list is in exactly one of them, and each list keeps the names in
\* the order of the missing list: no name is dropped and none is reported
\* both as installed and as failed.
C14_InstalledFailedPartition ==
    (IsSyncCommand /\ spc = "done" /\ missing # <<>>) =>
        /\ Range(sret.installed) \cap Range(sret.failed) = {}
        /\ Range(sret.installed) \cup Range(sret.failed) = Range(missing)
        /\ sret.installed = Filter(missing, Range(sret.installed))
        /\ sret.failed = Filter(missing, Range(sret.failed))

====
